---- MODULE Spec2Model ----
(***************************************************************************)
(* A model of the strand package (strand.go, seeded.go): goroutines call   *)
(* the package's entry points; every call is a short run of steps over     *)
(* its own locals.  The secure path draws its raw bytes from crypto/rand,  *)
(* modelled as a nondeterministic fill; the seeded path draws from a       *)
(* math/rand/v2 generator the call builds from its seed.                   *)
(***************************************************************************)
EXTENDS Integers, Sequences, FiniteSets, TLC

VARIABLES
    procs,      \* the goroutines that call into the package
    pc,         \* pc[p]: where goroutine p is inside its call
    op,         \* op[p]: the entry point p called
    ctx,        \* ctx[p]: the state of the context p passed (its Err())
    size,       \* size[p]: the size argument
    charset,    \* charset[p]: the charset argument, a sequence of bytes
    seed,       \* seed[p]: the variadic seed argument, a sequence of seeds
    nonce,      \* nonce[p]: the call's buffer
    rngs,       \* the generator objects alive, by the goroutine that built them
    inner,      \* inner[p]: what the innermost generator function returned
    ret,        \* ret[p]: what the entry point returned to the caller
    prev,       \* prev[p]: what the caller got from its previous identical call
    now,        \* the wall clock, as last observed
    reads,      \* reads[p]: this call's reads of the entropy source
    ctxAtCall,  \* ctxAtCall[p]: the context's state when the call began
    ctxAtCheck, \* ctxAtCheck[p]: the context's state the select observed
    stamp       \* stamp[p]: the timestamps this call read from the clock

vars == <<procs, pc, op, ctx, size, charset, seed, nonce, rngs, inner, ret,
          prev, now, reads, ctxAtCall, ctxAtCheck, stamp>>

(***************************************************************************)
(* Bounds of the model.                                                    *)
(***************************************************************************)
MaxSize == 2        \* sizes range over -1 .. MaxSize
MaxShort == 3       \* charsets of length 0 .. MaxShort, and those around 256
RawLow == 2         \* raw bytes 0 .. RawLow, and
RawHigh == 2        \* raw bytes 256 - RawHigh .. 255
MaxSeeds == 2       \* at most MaxSeeds values in the variadic seed
MaxTicks == 2       \* the clock advances at most MaxTicks times

(***************************************************************************)
(* Values.                                                                 *)
(***************************************************************************)
ByteMod == 256

\* The i-th character (0-based) of the charset of length n used by the
\* model: upper-case letters, repeating.
CharAt(i) == 65 + (i % 26)

MakeCharset(n) == [i \in 1..n |-> CharAt(i - 1)]

CharsetLens == (0..MaxShort) \cup {ByteMod, ByteMod + 1}

Charsets == {MakeCharset(n) : n \in CharsetLens}

Sizes == (-1)..MaxSize

RawBytes == {b \in 0..(ByteMod - 1) : b <= RawLow \/ b >= ByteMod - RawHigh}

\* Go's 0-based charset[i]
Index(s, i) == s[i + 1]

\* error values: id names the value, wraps the values its Unwrap chain reaches
NoErr == [id |-> "nil", wraps |-> {}]

ErrInvalidSize == [id |-> "ErrInvalidSize", wraps |-> {}]

ErrEmptyCharset == [id |-> "ErrEmptyCharset", wraps |-> {}]

ErrRandomFailure == [id |-> "ErrRandomFailure", wraps |-> {}]

Canceled == [id |-> "context.Canceled", wraps |-> {}]

DeadlineExceeded == [id |-> "context.DeadlineExceeded", wraps |-> {}]

\* what crypto/rand.Read may report
ReadCauses == {[id |-> "io.ErrUnexpectedEOF", wraps |-> {}]}

\* the run-time panic of an integer division by zero
DivideError == [id |-> "runtime.divideError", wraps |-> {}]

\* a run-time panic inside generateSeededBytes: make with a negative
\* length, or rng.IntN(0)
RuntimeError == [id |-> "runtime.Error", wraps |-> {}]

\* Errorf as it would be with %v in place of %w: nothing is wrapped
ErrorfNoWrap(msg, es) == [id |-> msg, wraps |-> {}]

\* fmt.Errorf(msg + ": %w", e) and fmt.Errorf("%w: %w", e1, e2)
Errorf(msg, es) ==
    [id |-> msg, wraps |-> UNION {{e.id} \cup e.wraps : e \in es}]

\* errors.Is(err, target)
Is(err, target) == err /= NoErr /\ (err = target \/ target.id \in err.wraps)

\* data values: a []byte (possibly nil), a string, or nothing at all
NilBytes == [typ |-> "bytes", isnil |-> TRUE, v |-> <<>>]

BytesOf(s) == [typ |-> "bytes", isnil |-> FALSE, v |-> s]

StringOf(s) == [typ |-> "string", isnil |-> FALSE, v |-> s]

NoData == [typ |-> "none", isnil |-> TRUE, v |-> <<>>]

\* string(b) for a []byte b
StringConv(d) == StringOf(d.v)

\* a returned (data, error) pair, or a panic carrying a value
Result(d, e) == [data |-> d, err |-> e, panic |-> NoErr]

Panic(e) == [data |-> NoData, err |-> NoErr, panic |-> e]

NoResult == [data |-> NoData, err |-> NoErr, panic |-> NoErr]

Panicked(r) == r.panic /= NoErr

\* context states: what ctx.Err() returns
CtxLive == NoErr

CtxStates == {CtxLive, Canceled, DeadlineExceeded}

\* CtxIsDone as it would be with "ctx.Err() == context.Canceled" in place
\* of the receive from ctx.Done(): an elapsed deadline goes unnoticed
CtxIsDoneCanceledOnly(c) == c = Canceled

CtxIsDone(c) == c /= CtxLive

(***************************************************************************)
(* The entry points.                                                       *)
(***************************************************************************)
SecureOps == {"Bytes", "BytesWithContext", "String", "StringWithContext",
              "MustBytes", "MustString"}

SeededOps == {"SeededBytes", "SeededBytesWithContext", "SeededString",
              "SeededStringWithContext"}

Ops == SecureOps \cup SeededOps

\* the entry points that take the caller's context; the others run under
\* context.Background(), which is never done
ContextOps == {"BytesWithContext", "StringWithContext",
               "SeededBytesWithContext", "SeededStringWithContext"}

BytesOps == {"Bytes", "BytesWithContext", "MustBytes", "SeededBytes",
             "SeededBytesWithContext"}

StringOps == Ops \ BytesOps

\* StringWithContext as it would be with "s, _ :=": the error is dropped
StringWithContextDropsError(r) ==
    IF Panicked(r) THEN r ELSE Result(StringConv(r.data), NoErr)

\* func StringWithContext: the text view of what BytesWithContext returned
StringWithContext(r) ==
    IF Panicked(r) THEN r
    ELSE IF r.err /= NoErr THEN Result(StringOf(<<>>), r.err)
    ELSE Result(StringConv(r.data), NoErr)

\* func Bytes: BytesWithContext under context.Background()
Bytes(r) == r

\* func String: StringWithContext under context.Background()
String(r) == StringWithContext(r)

\* MustBytes as it would be with panic(fmt.Errorf("strand: %w", err))
MustBytesWrapsError(r) ==
    IF Panicked(Bytes(r)) THEN Bytes(r)
    ELSE IF Bytes(r).err /= NoErr
         THEN Panic(Errorf("strand: %w", {Bytes(r).err}))
    ELSE Result(Bytes(r).data, NoErr)

\* func MustBytes: Bytes, with its error turned into a panic
MustBytes(r) ==
    IF Panicked(Bytes(r)) THEN Bytes(r)
    ELSE IF Bytes(r).err /= NoErr THEN Panic(Bytes(r).err)
    ELSE Result(Bytes(r).data, NoErr)

\* func MustString: String, with its error turned into a panic
MustString(r) ==
    IF Panicked(String(r)) THEN String(r)
    ELSE IF String(r).err /= NoErr THEN Panic(String(r).err)
    ELSE Result(String(r).data, NoErr)

\* func SeededBytes: the slice d that generateSeededBytes returned, or the
\* panic that went through it (no slice)
SeededBytes(d) == IF d = NoData THEN Panic(RuntimeError) ELSE Result(d, NoErr)

\* SeededBytesWithContext as it would be if it rejected an empty result
\* the way the secure path rejects size <= 0
SeededBytesWithContextValidates(r) ==
    IF r.err = NoErr /\ r.data.v = <<>> THEN Result(NilBytes, ErrInvalidSize)
    ELSE r

\* func SeededBytesWithContext: the select's error, or SeededBytes and nil
SeededBytesWithContext(r) == r

\* func SeededString: the text view of what SeededBytes returned
SeededString(r) == IF Panicked(r) THEN r ELSE Result(StringConv(r.data), NoErr)

\* func SeededStringWithContext: the text view of SeededBytesWithContext
SeededStringWithContext(r) ==
    IF Panicked(SeededBytesWithContext(r)) THEN r
    ELSE IF SeededBytesWithContext(r).err /= NoErr
         THEN Result(StringOf(<<>>), SeededBytesWithContext(r).err)
    ELSE Result(StringConv(SeededBytesWithContext(r).data), NoErr)

\* what entry point o hands its caller when its innermost generator
\* function came back with r
EntryReturn(o, r) ==
    CASE o = "Bytes" -> Bytes(r)
      [] o = "BytesWithContext" -> r
      [] o = "String" -> String(r)
      [] o = "StringWithContext" -> StringWithContext(r)
      [] o = "MustBytes" -> MustBytes(r)
      [] o = "MustString" -> MustString(r)
      [] o = "SeededBytes" -> r
      [] o = "SeededBytesWithContext" -> SeededBytesWithContext(r)
      [] o = "SeededString" -> SeededString(r)
      [] o = "SeededStringWithContext" -> SeededStringWithContext(r)

(***************************************************************************)
(* The secure path: func BytesWithContext, step by step.                   *)
(***************************************************************************)
\* CharsetLen as it would be with "charsetLen := len(charset)" and the raw
\* byte widened to int
CharsetLenFull(cs) == Len(cs)

\* byte(len(charset))
CharsetLen(cs) == Len(cs) % ByteMod

\* b%charsetLen: the position of the charset that raw byte b selects
Position(b, cs) == b % CharsetLen(cs)

\* MapNonce as it would be if the loop assigned to its copy b of the
\* element: the buffer keeps the raw bytes
MapNonceKeepsRaw(raw, cs) == raw

\* the loop "nonce[i] = charset[b%charsetLen]" over a filled buffer
MapNonce(raw, cs) ==
    [i \in 1..Len(raw) |-> Index(cs, Position(raw[i], cs))]

\* the message of the error a done context produces
SecureCtxMsg == "failed to created secure random bytes due to context ending early"

\* select { case <-ctx.Done(): ... default: ... }
BytesWithContextSelect(p) ==
    /\ pc[p] = "select"
    /\ ctxAtCheck' = [ctxAtCheck EXCEPT ![p] = <<ctx[p]>>]
    /\ IF CtxIsDone(ctx[p])
       THEN /\ inner' = [inner EXCEPT
                  ![p] = Result(NilBytes, Errorf(SecureCtxMsg, {ctx[p]}))]
            /\ pc' = [pc EXCEPT ![p] = "return"]
       ELSE /\ pc' = [pc EXCEPT ![p] = "validate"]
            /\ UNCHANGED inner
    /\ UNCHANGED <<procs, op, ctx, size, charset, seed, nonce, rngs, ret,
                   prev, now, reads, ctxAtCall, stamp>>

\* Validate as it would be with the two checks in the other order
ValidateCharsetFirst(sz, cs) ==
    IF Len(cs) = 0 THEN ErrEmptyCharset
    ELSE IF sz <= 0 THEN ErrInvalidSize
    ELSE NoErr

\* Validate as it would be with "size < 0": size 0 passes
ValidateNegativeOnly(sz, cs) ==
    IF sz < 0 THEN ErrInvalidSize
    ELSE IF Len(cs) = 0 THEN ErrEmptyCharset
    ELSE NoErr

\* Validate as it would be without the check of the charset
ValidateSizeOnly(sz, cs) == IF sz <= 0 THEN ErrInvalidSize ELSE NoErr

\* the two checks of the arguments: the error they end in, or nil
Validate(sz, cs) ==
    IF sz <= 0 THEN ErrInvalidSize
    ELSE IF Len(cs) = 0 THEN ErrEmptyCharset
    ELSE NoErr

\* if size <= 0 { return nil, ErrInvalidSize }
\* if len(charset) == 0 { return nil, ErrEmptyCharset }
BytesWithContextValidate(p) ==
    /\ pc[p] = "validate"
    /\ IF Validate(size[p], charset[p]) /= NoErr
       THEN /\ inner' = [inner EXCEPT
                  ![p] = Result(NilBytes, Validate(size[p], charset[p]))]
            /\ pc' = [pc EXCEPT ![p] = "return"]
       ELSE /\ pc' = [pc EXCEPT ![p] = "read"]
            /\ UNCHANGED inner
    /\ UNCHANGED <<procs, op, ctx, size, charset, seed, nonce, rngs, ret,
                   prev, now, reads, ctxAtCall, ctxAtCheck, stamp>>

\* MakeBytes as it would be with make([]byte, 0, size): capacity, no length
MakeBytesCapOnly(sz) == <<>>

\* make([]byte, size)
MakeBytes(sz) == [i \in 1..sz |-> 0]

\* RandomFailure as it would be if the cause were dropped
RandomFailureBare(cause) == ErrRandomFailure

\* fmt.Errorf("%w: %w", ErrRandomFailure, err)
RandomFailure(cause) == Errorf("%w: %w", {ErrRandomFailure, cause})

\* ReadFailure as it would be with "return nonce, err"
ReadFailureWithBuffer(buf, cause) ==
    Result(BytesOf(buf), Errorf("%w: %w", {ErrRandomFailure, cause}))

\* what the call returns when rand.Read(nonce) reports cause
ReadFailure(buf, cause) == Result(NilBytes, RandomFailure(cause))

\* nonce := make([]byte, size); rand.Read(nonce): the source either reports
\* an error or fills the whole buffer
BytesWithContextRead(p) ==
    /\ pc[p] = "read"
    /\ \/ \E cause \in ReadCauses :
            /\ reads' = [reads EXCEPT ![p] =
                   Append(@, [n |-> Len(MakeBytes(size[p])), err |-> cause,
                              raw |-> MakeBytes(size[p])])]
            /\ nonce' = [nonce EXCEPT ![p] = MakeBytes(size[p])]
            /\ inner' = [inner EXCEPT
                  ![p] = ReadFailure(MakeBytes(size[p]), cause)]
            /\ pc' = [pc EXCEPT ![p] = "return"]
       \/ \E raw \in [DOMAIN MakeBytes(size[p]) -> RawBytes] :
            /\ reads' = [reads EXCEPT ![p] =
                   Append(@, [n |-> Len(raw), err |-> NoErr, raw |-> raw])]
            /\ nonce' = [nonce EXCEPT ![p] = raw]
            /\ pc' = [pc EXCEPT ![p] = "map"]
            /\ UNCHANGED inner
    /\ UNCHANGED <<procs, op, ctx, size, charset, seed, rngs, ret, prev, now,
                   ctxAtCall, ctxAtCheck, stamp>>

\* charsetLen := byte(len(charset)); the mapping loop; return nonce, nil
BytesWithContextMap(p) ==
    /\ pc[p] = "map"
    /\ IF CharsetLen(charset[p]) = 0
       THEN /\ inner' = [inner EXCEPT ![p] = Panic(DivideError)]
            /\ UNCHANGED nonce
       ELSE /\ nonce' = [nonce EXCEPT ![p] = MapNonce(nonce[p], charset[p])]
            /\ inner' = [inner EXCEPT ![p] = Result(BytesOf(nonce'[p]), NoErr)]
    /\ pc' = [pc EXCEPT ![p] = "return"]
    /\ UNCHANGED <<procs, op, ctx, size, charset, seed, rngs, ret, prev, now,
                   reads, ctxAtCall, ctxAtCheck, stamp>>

(***************************************************************************)
(* The generator of math/rand/v2 (rand.NewPCG, Rand.IntN) that seeded.go   *)
(* draws from, with its words 16 bits wide instead of 64 and its half      *)
(* words 8 bits wide instead of 32; the multipliers and increments are     *)
(* the low 16 bits of the library's.                                       *)
(***************************************************************************)
WordMod == ByteMod * ByteMod

\* uint64(x) of a signed x, at the model's word width
ToWord(x) == x % WordMod

\* x >> k of a signed x (an arithmetic shift)
ShiftRight(x, k) == x \div (2 ^ k)

RECURSIVE Xor(_, _)
Xor(a, b) ==
    IF a = 0 THEN b
    ELSE IF b = 0 THEN a
    ELSE ((a + b) % 2) + 2 * Xor(a \div 2, b \div 2)

\* the two words <<hi, lo>> of hh * 2^16 + mid * 2^8 + l0
MulCarry(hh, mid, l0) == <<hh + (mid \div ByteMod), (mid % ByteMod) * ByteMod + l0>>

\* bits.Mul64: the two words <<hi, lo>> of the product of two words
Mul(a, b) ==
    MulCarry((a \div ByteMod) * (b \div ByteMod),
             (a \div ByteMod) * (b % ByteMod) + (a % ByteMod) * (b \div ByteMod)
                 + (((a % ByteMod) * (b % ByteMod)) \div ByteMod),
             ((a % ByteMod) * (b % ByteMod)) % ByteMod)

\* a * b in a word
MulLo(a, b) == Mul(a, b)[2]

\* rand.NewPCG(seed1, seed2)
NewPCG(seed1, seed2) == [hi |-> seed1, lo |-> seed2]

\* the additions of (*PCG).next: m is lo * mulLo, cross the cross products
PCGAdd(m, cross) ==
    [hi |-> (m[1] + cross + 32557 + ((m[2] + 33103) \div WordMod)) % WordMod,
     lo |-> (m[2] + 33103) % WordMod]

\* (*PCG).next: state = state * mul + inc
PCGNext(g) ==
    PCGAdd(Mul(g.lo, 63045), MulLo(g.hi, 63045) + MulLo(g.lo, 23972))

\* hi ^= hi >> k
XorShift(h, k) == Xor(h, ShiftRight(h, k))

\* lo | 1
OrOne(x) == IF x % 2 = 0 THEN x + 1 ELSE x

\* the output permutation of (*PCG).Uint64 on the advanced state n
DXSM(n) ==
    <<MulLo(XorShift(MulLo(XorShift(n.hi, 8), 22709), 12), OrOne(n.lo)), n>>

\* (*PCG).Uint64: <<the value drawn, the generator after the draw>>
Uint64(g) == DXSM(PCGNext(g))

\* uint32(x >> 32) of a draw d
HighHalf(d) == <<ShiftRight(d[1], 8), d[2]>>

\* (*Rand).Uint32: the high half of a word
Uint32(g) == HighHalf(Uint64(g))

IsPowerOfTwo(n) == \E k \in 0..15 : n = 2 ^ k

\* uint32(r.Uint64()) & (n - 1) of a draw d
Mask32(d, n) == <<(d[1] % ByteMod) % n, d[2]>>

\* r.Uint64() & (n - 1) of a draw d
Mask64(d, n) == <<d[1] % n, d[2]>>

\* the multiply-and-reject loop of uint32n, from the draw d on
RECURSIVE Reject32(_, _, _)
Reject32(d, n, thresh) ==
    IF (d[1] * n) % ByteMod < thresh THEN Reject32(Uint32(d[2]), n, thresh)
    ELSE <<(d[1] * n) \div ByteMod, d[2]>>

\* (*Rand).uint32n: a value in [0, n) for n that fits a half word
Uint32n(g, n) ==
    IF IsPowerOfTwo(n) THEN Mask32(Uint64(g), n)
    ELSE Reject32(Uint32(g), n, (ByteMod - n) % n)

\* the multiply-and-reject loop of uint64n, from the draw d on
RECURSIVE Reject64(_, _, _)
Reject64(d, n, thresh) ==
    IF Mul(d[1], n)[2] < thresh THEN Reject64(Uint64(d[2]), n, thresh)
    ELSE <<Mul(d[1], n)[1], d[2]>>

\* (*Rand).uint64n: a value in [0, n)
Uint64n(g, n) ==
    IF n < ByteMod THEN Uint32n(g, n)
    ELSE IF IsPowerOfTwo(n) THEN Mask64(Uint64(g), n)
    ELSE Reject64(Uint64(g), n, (WordMod - n) % n)

\* (*Rand).IntN, for n > 0
IntN(g, n) == Uint64n(g, n)

(***************************************************************************)
(* The seeded path: func SeededBytes and func generateSeededBytes.         *)
(***************************************************************************)
\* the loop "nonce[i] = charset[rng.IntN(charsetLen)]" with k positions
\* left to fill after acc: <<the bytes, the generator afterwards>>
RECURSIVE FillNonce(_, _, _, _)
RECURSIVE FillNext(_, _, _, _)
FillNonce(g, k, cs, acc) ==
    IF k = 0 THEN <<acc, g>> ELSE FillNext(IntN(g, Len(cs)), k, cs, acc)

\* FillNext as it would be with "nonce[i] = byte(rng.IntN(charsetLen))":
\* the index drawn is stored, not the character it selects
FillNextStoresIndex(d, k, cs, acc) ==
    FillNonce(d[2], k - 1, cs, Append(acc, d[1]))

\* FillNext as it would be if the loop filled the buffer from its end
FillNextFromEnd(d, k, cs, acc) ==
    FillNonce(d[2], k - 1, cs, <<Index(cs, d[1])>> \o acc)

\* one position of the loop, filled from the draw d
FillNext(d, k, cs, acc) ==
    FillNonce(d[2], k - 1, cs, Append(acc, Index(cs, d[1])))

\* the slice a filled buffer is returned as
Filled(d) == <<BytesOf(d[1]), d[2]>>

\* generateSeededBytes as it would be with a buffer one byte short
generateSeededBytesShort(g, sz, cs) ==
    IF sz <= 0 THEN <<BytesOf(<<>>), g>>
    ELSE IF Len(cs) = 0 THEN <<BytesOf([i \in 1..sz |-> 0]), g>>
    ELSE Filled(FillNonce(g, sz - 1, cs, <<>>))

\* generateSeededBytes as it would be without "if size <= 0": make panics
\* for a negative size
generateSeededBytesNoSizeGuard(g, sz, cs) ==
    IF sz < 0 THEN <<NoData, g>>
    ELSE IF Len(cs) = 0 THEN <<BytesOf([i \in 1..sz |-> 0]), g>>
    ELSE Filled(FillNonce(g, sz, cs, <<>>))

\* generateSeededBytes as it would be without "if len(charset) == 0":
\* rng.IntN(0) panics
generateSeededBytesNoCharsetGuard(g, sz, cs) ==
    IF sz <= 0 THEN <<BytesOf(<<>>), g>>
    ELSE IF Len(cs) = 0 THEN <<NoData, g>>
    ELSE Filled(FillNonce(g, sz, cs, <<>>))

\* func generateSeededBytes: <<the slice returned, the generator afterwards>>
generateSeededBytes(g, sz, cs) ==
    IF sz <= 0 THEN <<BytesOf(<<>>), g>>
    ELSE IF Len(cs) = 0 THEN <<BytesOf([i \in 1..sz |-> 0]), g>>
    ELSE Filled(FillNonce(g, sz, cs, <<>>))

\* SeedValue as it would be if the seed argument were ignored
SeedValueFromClock(sd, t) == t

\* SeedValue as it would be with a fixed default in place of the clock
SeedValueFixedDefault(sd, t) == IF Len(sd) > 0 THEN sd[1] ELSE 0

\* SeedValue as it would be if the last seed passed were the one used
SeedValueLast(sd, t) == IF Len(sd) > 0 THEN sd[Len(sd)] ELSE t

\* seedValue: seed[0] if a seed was passed, else the timestamp t
SeedValue(sd, t) == IF Len(sd) > 0 THEN sd[1] ELSE t

\* rand.New(rand.NewPCG(uint64(seedValue), uint64(seedValue>>32)))
NewRng(seedValue) ==
    NewPCG(ToWord(seedValue), ToWord(ShiftRight(seedValue, 8)))

\* RngOf as it was when the seeded functions seeded and drew from the one
\* package-level generator of math/rand
RngShared(p) == 1

\* the generator object a call builds is its own
RngOf(p) == p

\* the message of the error a done context produces
SeededCtxMsg == "failed to created seeded bytes due to context ending early"

\* func SeededBytesWithContext: select { case <-ctx.Done(): ... default: ... }
SeededBytesWithContextSelect(p) ==
    /\ pc[p] = "sselect"
    /\ ctxAtCheck' = [ctxAtCheck EXCEPT ![p] = <<ctx[p]>>]
    /\ IF CtxIsDone(ctx[p])
       THEN /\ inner' = [inner EXCEPT
                  ![p] = Result(NilBytes, Errorf(SeededCtxMsg, {ctx[p]}))]
            /\ pc' = [pc EXCEPT ![p] = "return"]
       ELSE /\ pc' = [pc EXCEPT ![p] = "seed"]
            /\ UNCHANGED inner
    /\ UNCHANGED <<procs, op, ctx, size, charset, seed, nonce, rngs, ret,
                   prev, now, reads, ctxAtCall, stamp>>

\* func SeededBytes up to the call of generateSeededBytes: read the clock,
\* resolve the seed, build the generator
SeededBytesSeed(p) ==
    /\ pc[p] = "seed"
    /\ \E t \in now..MaxTicks :
          /\ now' = t
          /\ stamp' = [stamp EXCEPT ![p] = Append(@, t)]
          /\ rngs' = (RngOf(p) :> NewRng(SeedValue(seed[p], t))) @@ rngs
    /\ pc' = [pc EXCEPT ![p] = "generate"]
    /\ UNCHANGED <<procs, op, ctx, size, charset, seed, nonce, inner, ret,
                   prev, reads, ctxAtCall, ctxAtCheck>>

\* return generateSeededBytes(rng, size, charset)
SeededBytesGenerate(p) ==
    /\ pc[p] = "generate"
    /\ RngOf(p) \in DOMAIN rngs
    /\ LET d == generateSeededBytes(rngs[RngOf(p)], size[p], charset[p])
       IN  /\ nonce' = [nonce EXCEPT ![p] = d[1].v]
           /\ inner' = [inner EXCEPT ![p] = SeededBytes(d[1])]
           /\ rngs' = [rngs EXCEPT ![RngOf(p)] = d[2]]
    /\ pc' = [pc EXCEPT ![p] = "return"]
    /\ UNCHANGED <<procs, op, ctx, size, charset, seed, ret, prev, now,
                   reads, ctxAtCall, ctxAtCheck, stamp>>

(***************************************************************************)
(* Calling and returning.                                                  *)
(***************************************************************************)
\* the variadic seed arguments a caller may pass
SeedValues == {-2, 1}

SeedArgs == UNION {[1..n -> SeedValues] : n \in 0..MaxSeeds}

\* FirstPc as it was before the checks were added: the secure functions
\* begin with the read
FirstPcReadsFirst(o) ==
    IF o \in SecureOps THEN "read"
    ELSE IF o \in ContextOps THEN "sselect" ELSE "seed"

\* FirstPc as it would be with the checks of the arguments placed above
\* the select
FirstPcValidatesFirst(o) ==
    IF o \in SecureOps THEN "validate"
    ELSE IF o \in ContextOps THEN "sselect" ELSE "seed"

FirstPc(o) ==
    IF o \in SecureOps THEN "select"
    ELSE IF o \in ContextOps THEN "sselect" ELSE "seed"

\* a goroutine calls entry point o
Call(p) ==
    /\ pc[p] = "idle"
    /\ \E o \in Ops, c \in CtxStates, sz \in Sizes, cs \in Charsets,
          sd \in SeedArgs :
          /\ o \notin ContextOps => c = CtxLive
          /\ o \in SecureOps => sd = <<>>
          /\ op' = [op EXCEPT ![p] = o]
          /\ ctx' = [ctx EXCEPT ![p] = c]
          /\ ctxAtCall' = [ctxAtCall EXCEPT ![p] = c]
          /\ size' = [size EXCEPT ![p] = sz]
          /\ charset' = [charset EXCEPT ![p] = cs]
          /\ seed' = [seed EXCEPT ![p] = sd]
          /\ pc' = [pc EXCEPT ![p] = FirstPc(o)]
    /\ UNCHANGED <<procs, nonce, rngs, inner, ret, prev, now, reads,
                   ctxAtCheck, stamp>>

\* the caller's context is canceled, or its deadline passes, while the
\* call is running
CtxDone(p) ==
    /\ pc[p] \notin {"idle", "done"}
    /\ op[p] \in ContextOps
    /\ ctx[p] = CtxLive
    /\ \E c \in {Canceled, DeadlineExceeded} : ctx' = [ctx EXCEPT ![p] = c]
    /\ UNCHANGED <<procs, pc, op, size, charset, seed, nonce, rngs, inner,
                   ret, prev, now, reads, ctxAtCall, ctxAtCheck, stamp>>

\* the entry point returns to its caller (or panics into it)
Return(p) ==
    /\ pc[p] = "return"
    /\ ret' = [ret EXCEPT ![p] = EntryReturn(op[p], inner[p])]
    /\ pc' = [pc EXCEPT ![p] = "done"]
    /\ rngs' = [q \in DOMAIN rngs \ {RngOf(p)} |-> rngs[q]]
    /\ UNCHANGED <<procs, op, ctx, size, charset, seed, nonce, inner, prev,
                   now, reads, ctxAtCall, ctxAtCheck, stamp>>

\* the caller drops the result; the goroutine is free to call again
Reset(p) ==
    /\ pc[p] = "done"
    /\ pc' = [pc EXCEPT ![p] = "idle"]
    /\ op' = [op EXCEPT ![p] = "none"]
    /\ ctx' = [ctx EXCEPT ![p] = CtxLive]
    /\ size' = [size EXCEPT ![p] = 0]
    /\ charset' = [charset EXCEPT ![p] = <<>>]
    /\ seed' = [seed EXCEPT ![p] = <<>>]
    /\ nonce' = [nonce EXCEPT ![p] = <<>>]
    /\ inner' = [inner EXCEPT ![p] = NoResult]
    /\ ret' = [ret EXCEPT ![p] = NoResult]
    /\ prev' = [prev EXCEPT ![p] = NoResult]
    /\ reads' = [reads EXCEPT ![p] = <<>>]
    /\ ctxAtCall' = [ctxAtCall EXCEPT ![p] = CtxLive]
    /\ ctxAtCheck' = [ctxAtCheck EXCEPT ![p] = <<>>]
    /\ stamp' = [stamp EXCEPT ![p] = <<>>]
    /\ UNCHANGED <<procs, rngs, now>>

\* the caller keeps the result and makes the same seeded call once more,
\* as the determinism tests do
Repeat(p) ==
    /\ pc[p] = "done"
    /\ op[p] \in SeededOps
    /\ prev[p] = NoResult
    /\ prev' = [prev EXCEPT ![p] = ret[p]]
    /\ pc' = [pc EXCEPT ![p] = FirstPc(op[p])]
    /\ ctxAtCall' = [ctxAtCall EXCEPT ![p] = ctx[p]]
    /\ nonce' = [nonce EXCEPT ![p] = <<>>]
    /\ inner' = [inner EXCEPT ![p] = NoResult]
    /\ ret' = [ret EXCEPT ![p] = NoResult]
    /\ reads' = [reads EXCEPT ![p] = <<>>]
    /\ ctxAtCheck' = [ctxAtCheck EXCEPT ![p] = <<>>]
    /\ stamp' = [stamp EXCEPT ![p] = <<>>]
    /\ UNCHANGED <<procs, op, ctx, size, charset, seed, rngs, now>>

(***************************************************************************)
(* The specification: one goroutine calling the package again and again.   *)
(***************************************************************************)
InitLocals ==
    /\ pc = [p \in procs |-> "idle"]
    /\ op = [p \in procs |-> "none"]
    /\ ctx = [p \in procs |-> CtxLive]
    /\ size = [p \in procs |-> 0]
    /\ charset = [p \in procs |-> <<>>]
    /\ seed = [p \in procs |-> <<>>]
    /\ nonce = [p \in procs |-> <<>>]
    /\ rngs = <<>>
    /\ inner = [p \in procs |-> NoResult]
    /\ ret = [p \in procs |-> NoResult]
    /\ prev = [p \in procs |-> NoResult]
    /\ now = 0
    /\ reads = [p \in procs |-> <<>>]
    /\ ctxAtCall = [p \in procs |-> CtxLive]
    /\ ctxAtCheck = [p \in procs |-> <<>>]
    /\ stamp = [p \in procs |-> <<>>]

Init ==
    /\ procs = {1}
    /\ InitLocals

Next ==
    \/ \E p \in procs : Call(p)
    \/ \E p \in procs : CtxDone(p)
    \/ \E p \in procs : BytesWithContextSelect(p)
    \/ \E p \in procs : BytesWithContextValidate(p)
    \/ \E p \in procs : BytesWithContextRead(p)
    \/ \E p \in procs : BytesWithContextMap(p)
    \/ \E p \in procs : SeededBytesWithContextSelect(p)
    \/ \E p \in procs : SeededBytesSeed(p)
    \/ \E p \in procs : SeededBytesGenerate(p)
    \/ \E p \in procs : Return(p)
    \/ \E p \in procs : Repeat(p)
    \/ \E p \in procs : Reset(p)

Spec == Init /\ [][Next]_vars

(***************************************************************************)
(* A second specification: two goroutines calling SeededBytes at the same  *)
(* time, as the parallel subtests do, their steps interleaved in every     *)
(* order.                                                                  *)
(***************************************************************************)
ConcSizes == {0, MaxSize}

ConcCharsets == {MakeCharset(n) : n \in {0, MaxShort - 1, MaxShort}}

ConcSeeds == {sd \in SeedArgs : Len(sd) <= 1}

\* a goroutine calls SeededBytes
CallConc(p) ==
    /\ pc[p] = "idle"
    /\ \E sz \in ConcSizes, cs \in ConcCharsets, sd \in ConcSeeds :
          /\ op' = [op EXCEPT ![p] = "SeededBytes"]
          /\ size' = [size EXCEPT ![p] = sz]
          /\ charset' = [charset EXCEPT ![p] = cs]
          /\ seed' = [seed EXCEPT ![p] = sd]
          /\ pc' = [pc EXCEPT ![p] = FirstPc("SeededBytes")]
    /\ UNCHANGED <<procs, ctx, nonce, rngs, inner, ret, prev, now, reads,
                   ctxAtCall, ctxAtCheck, stamp>>

InitConc ==
    /\ procs = {1, 2}
    /\ InitLocals

NextConc ==
    \/ \E p \in procs : CallConc(p)
    \/ \E p \in procs : SeededBytesSeed(p)
    \/ \E p \in procs : SeededBytesGenerate(p)
    \/ \E p \in procs : Return(p)
    \/ \E p \in procs : Reset(p)

SpecConc == InitConc /\ [][NextConc]_vars

TypeOK ==
    /\ \A p \in procs : pc[p] \in {"idle", "select", "validate", "read",
                                   "map", "sselect", "seed", "generate",
                                   "return", "done"}
    /\ now \in 0..MaxTicks

(***************************************************************************)
(* Vocabulary of the properties.                                           *)
(***************************************************************************)
Done(p) == pc[p] = "done"

\* the elements of a sequence
Range(f) == {f[i] : i \in DOMAIN f}

\* the four fallible entry points of the secure path
FallibleSecureOps == {"Bytes", "BytesWithContext", "String", "StringWithContext"}

\* the select of the call found the context live
LiveAtCheck(p) == ctxAtCheck[p] = <<CtxLive>>

\* the call read the entropy source once, and the read filled the buffer
ReadSucceeded(p) == Len(reads[p]) = 1 /\ reads[p][1].err = NoErr

\* the call read the entropy source once, and the read reported an error
ReadFailed(p) == Len(reads[p]) = 1 /\ reads[p][1].err /= NoErr

\* r carries no data: nil bytes from a bytes entry point, "" from a string one
NoDataIn(o, r) ==
    /\ ~Panicked(r)
    /\ r.data = IF o \in BytesOps THEN NilBytes ELSE StringOf(<<>>)

(***************************************************************************)
(* C1: for every size > 0 and every non-empty charset, with a context that *)
(* is not done and an entropy read that succeeds, Bytes, BytesWithContext, *)
(* String and StringWithContext return a nil error and a result of length  *)
(* exactly size.  The code panics instead when the charset's length is a   *)
(* multiple of 256.                                                        *)
(***************************************************************************)
C1_SecureLength ==
    \A p \in procs :
        (/\ Done(p)
         /\ op[p] \in FallibleSecureOps
         /\ size[p] > 0
         /\ Len(charset[p]) > 0
         /\ LiveAtCheck(p)
         /\ ReadSucceeded(p))
        => (/\ ~Panicked(ret[p])
            /\ ret[p].err = NoErr
            /\ Len(ret[p].data.v) = size[p])

C3_InvalidSize ==
    \A p \in procs :
        (/\ Done(p)
         /\ op[p] \in FallibleSecureOps
         /\ size[p] <= 0
         /\ LiveAtCheck(p))
        => (/\ Is(ret[p].err, ErrInvalidSize)
            /\ NoDataIn(op[p], ret[p]))

\* StringWithContext(ctx, 0, charset) has returned, for a non-empty charset
C3_Witness ==
    \E p \in procs :
        /\ Done(p)
        /\ op[p] = "StringWithContext"
        /\ size[p] = 0
        /\ Len(charset[p]) > 0
        /\ LiveAtCheck(p)
        /\ ret[p].err = ErrInvalidSize

(***************************************************************************)
(* C4: for every size > 0 and the empty charset, with a context that is    *)
(* not done, Bytes, BytesWithContext, String and StringWithContext fail    *)
(* with an error matching ErrEmptyCharset and return no data.              *)
(***************************************************************************)
C4_EmptyCharset ==
    \A p \in procs :
        (/\ Done(p)
         /\ op[p] \in FallibleSecureOps
         /\ size[p] > 0
         /\ Len(charset[p]) = 0
         /\ LiveAtCheck(p))
        => (/\ Is(ret[p].err, ErrEmptyCharset)
            /\ NoDataIn(op[p], ret[p]))

\* Bytes(MaxSize, "") has returned
C4_Witness ==
    \E p \in procs :
        /\ Done(p)
        /\ op[p] = "Bytes"
        /\ size[p] = MaxSize
        /\ Len(charset[p]) = 0
        /\ LiveAtCheck(p)
        /\ ret[p].err = ErrEmptyCharset
        /\ reads[p] = <<>>

(***************************************************************************)
(* C5: the secure generator never panics: for every size, every charset    *)
(* and every outcome of the entropy read, Bytes, BytesWithContext, String  *)
(* and StringWithContext return normally, with data or with an error.      *)
(* The code panics (integer divide by zero) when byte(len(charset)) is 0.  *)
(***************************************************************************)
C5_SecureNeverPanics ==
    \A p \in procs :
        (Done(p) /\ op[p] \in FallibleSecureOps) => ~Panicked(ret[p])

(***************************************************************************)
(* C6: if the context passed to BytesWithContext or StringWithContext is   *)
(* already done when the call begins, the call returns no data and an      *)
(* error that matches context.Canceled when the context was canceled and   *)
(* context.DeadlineExceeded when its deadline had elapsed.                 *)
(***************************************************************************)
C6_SecureCancellation ==
    \A p \in procs :
        (/\ Done(p)
         /\ op[p] \in {"BytesWithContext", "StringWithContext"}
         /\ CtxIsDone(ctxAtCall[p]))
        => (/\ NoDataIn(op[p], ret[p])
            /\ Is(ret[p].err, ctxAtCall[p])
            /\ \A c \in {Canceled, DeadlineExceeded} \ {ctxAtCall[p]} :
                   ~Is(ret[p].err, c))

\* BytesWithContext has returned for valid arguments and a context whose
\* deadline had passed before the call
C6_Witness ==
    \E p \in procs :
        /\ Done(p)
        /\ op[p] = "BytesWithContext"
        /\ ctxAtCall[p] = DeadlineExceeded
        /\ size[p] > 0
        /\ Len(charset[p]) > 0
        /\ ret[p].data = NilBytes
        /\ Is(ret[p].err, DeadlineExceeded)

(***************************************************************************)
(* C7: when the secure entropy read fails, for valid size and charset and  *)
(* a live context, Bytes / BytesWithContext return no data and an error    *)
(* that matches ErrRandomFailure and also wraps the cause the entropy      *)
(* source reported.                                                        *)
(***************************************************************************)
C7_RandomFailure ==
    \A p \in procs :
        (/\ Done(p)
         /\ op[p] \in {"Bytes", "BytesWithContext"}
         /\ ReadFailed(p))
        => (/\ NoDataIn(op[p], ret[p])
            /\ Is(ret[p].err, ErrRandomFailure)
            /\ Is(ret[p].err, reads[p][1].err))

\* Bytes has returned after a failed read for valid arguments
C7_Witness ==
    \E p \in procs :
        /\ Done(p)
        /\ op[p] = "Bytes"
        /\ size[p] > 0
        /\ Len(charset[p]) > 0
        /\ LiveAtCheck(p)
        /\ ReadFailed(p)
        /\ reads[p][1].err \in ReadCauses
        /\ ret[p].err /= NoErr

(***************************************************************************)
(* C8: no entry point returns data together with an error: whenever        *)
(* Bytes, BytesWithContext or SeededBytesWithContext return a non-nil      *)
(* error the byte result is nil, and whenever String, StringWithContext or *)
(* SeededStringWithContext return a non-nil error the string is empty.     *)
(***************************************************************************)
C8_NoDataWithError ==
    \A p \in procs :
        (/\ Done(p)
         /\ op[p] \in FallibleSecureOps
                \cup {"SeededBytesWithContext", "SeededStringWithContext"}
         /\ ~Panicked(ret[p])
         /\ ret[p].err /= NoErr)
        => NoDataIn(op[p], ret[p])

\* a read that failed after the buffer was allocated: the one place where
\* the call holds a buffer while it returns an error
C8_Witness ==
    \E p \in procs :
        /\ Done(p)
        /\ op[p] = "StringWithContext"
        /\ ReadFailed(p)
        /\ Len(nonce[p]) = MaxSize
        /\ ret[p].err /= NoErr
        /\ ret[p].data = StringOf(<<>>)

(***************************************************************************)
(* C9: seeded determinism: for every size, charset and explicit seed, two  *)
(* calls of SeededBytes (or of SeededString) with identical arguments      *)
(* return byte-identical output.                                           *)
(***************************************************************************)
C9_SeededDeterminism ==
    \A p \in procs :
        (/\ Done(p)
         /\ op[p] \in {"SeededBytes", "SeededString"}
         /\ Len(seed[p]) > 0
         /\ prev[p] /= NoResult)
        => ret[p] = prev[p]

\* the second of two identical SeededBytes calls has returned, the clock
\* having advanced between the two
C9_Witness ==
    \E p \in procs :
        /\ Done(p)
        /\ op[p] = "SeededBytes"
        /\ Len(seed[p]) > 0
        /\ size[p] = MaxSize
        /\ Len(charset[p]) > 1
        /\ prev[p] /= NoResult
        /\ stamp[p] = <<MaxTicks>>
        /\ Len(ret[p].data.v) = MaxSize

(***************************************************************************)
(* C10: for every size > 0 and every non-empty charset, SeededBytes and    *)
(* SeededString return a result of length exactly size, with an explicit   *)
(* seed and with the default, time-derived seed.                           *)
(***************************************************************************)
C10_SeededLength ==
    \A p \in procs :
        (/\ Done(p)
         /\ op[p] \in {"SeededBytes", "SeededString"}
         /\ size[p] > 0
         /\ Len(charset[p]) > 0)
        => (/\ ~Panicked(ret[p])
            /\ ret[p].err = NoErr
            /\ ret[p].data.isnil = FALSE
            /\ Len(ret[p].data.v) = size[p])

\* SeededString has returned MaxSize characters under the default seed
C10_Witness ==
    \E p \in procs :
        /\ Done(p)
        /\ op[p] = "SeededString"
        /\ seed[p] = <<>>
        /\ size[p] = MaxSize
        /\ Len(charset[p]) > ByteMod
        /\ ret[p].data.typ = "string"
        /\ Len(ret[p].data.v) = MaxSize

(***************************************************************************)
(* C11: for every size > 0, every non-empty charset and every seed,        *)
(* explicit or default, every byte of the SeededBytes / SeededString       *)
(* result is a member of the charset.                                      *)
(***************************************************************************)
C11_SeededMembership ==
    \A p \in procs :
        (/\ Done(p)
         /\ op[p] \in {"SeededBytes", "SeededString"}
         /\ size[p] > 0
         /\ Len(charset[p]) > 0)
        => (/\ ~Panicked(ret[p])
            /\ Range(ret[p].data.v) \subseteq Range(charset[p]))

\* SeededBytes has returned MaxSize bytes drawn from a charset of several
\* characters under an explicit seed
C11_Witness ==
    \E p \in procs :
        /\ Done(p)
        /\ op[p] = "SeededBytes"
        /\ seed[p] /= <<>>
        /\ size[p] = MaxSize
        /\ Len(charset[p]) = MaxShort
        /\ Len(ret[p].data.v) = MaxSize
        /\ ret[p].data.v[1] /= ret[p].data.v[MaxSize]

(***************************************************************************)
(* C12: on invalid input (size <= 0, or an empty charset) MustBytes and    *)
(* MustString panic, and the panic value is the very error value that      *)
(* Bytes / String return for that input: ErrInvalidSize for size <= 0,     *)
(* ErrEmptyCharset for an empty charset.                                   *)
(***************************************************************************)
C12_MustPanicsWithError ==
    \A p \in procs :
        (/\ Done(p)
         /\ op[p] \in {"MustBytes", "MustString"}
         /\ (size[p] <= 0 \/ Len(charset[p]) = 0))
        => (/\ Panicked(ret[p])
            /\ ret[p].panic = inner[p].err
            /\ ret[p].panic =
                   IF size[p] <= 0 THEN ErrInvalidSize ELSE ErrEmptyCharset)

\* MustBytes(MaxSize, "") has panicked
C12_Witness ==
    \E p \in procs :
        /\ Done(p)
        /\ op[p] = "MustBytes"
        /\ size[p] = MaxSize
        /\ Len(charset[p]) = 0
        /\ ret[p].panic = ErrEmptyCharset

(***************************************************************************)
(* C13: on valid input (size > 0, non-empty charset, entropy read          *)
(* succeeds) MustBytes and MustString do not panic and return exactly the  *)
(* output that Bytes / String return when given the same entropy bytes.    *)
(* The code panics when the charset's length is a multiple of 256.         *)
(***************************************************************************)
C13_MustEquivalent ==
    \A p \in procs :
        (/\ Done(p)
         /\ op[p] \in {"MustBytes", "MustString"}
         /\ size[p] > 0
         /\ Len(charset[p]) > 0
         /\ ReadSucceeded(p))
        => (/\ ~Panicked(ret[p])
            /\ ret[p] = IF op[p] = "MustBytes" THEN Bytes(inner[p])
                        ELSE String(inner[p]))

(***************************************************************************)
(* C14: if the context passed to SeededBytesWithContext or                 *)
(* SeededStringWithContext is already done when the call begins, the call  *)
(* returns no data and an error matching context.Canceled (explicit        *)
(* cancel) or context.DeadlineExceeded (deadline elapsed), whatever size,  *)
(* charset and seed were passed.                                           *)
(***************************************************************************)
C14_SeededCancellation ==
    \A p \in procs :
        (/\ Done(p)
         /\ op[p] \in {"SeededBytesWithContext", "SeededStringWithContext"}
         /\ ctxAtCall[p] \in {Canceled, DeadlineExceeded})
        => (/\ NoDataIn(op[p], ret[p])
            /\ Is(ret[p].err, ctxAtCall[p])
            /\ stamp[p] = <<>>)

\* SeededStringWithContext has returned for valid arguments and a context
\* whose deadline had passed before the call
C14_Witness ==
    \E p \in procs :
        /\ Done(p)
        /\ op[p] = "SeededStringWithContext"
        /\ ctxAtCall[p] = DeadlineExceeded
        /\ size[p] > 0
        /\ Len(charset[p]) > 0
        /\ seed[p] /= <<>>
        /\ ret[p].data = StringOf(<<>>)
        /\ Is(ret[p].err, DeadlineExceeded)

\* what SeededBytes(sz, cs, sv) returns when nothing else runs
SeededAlone(sz, cs, sv) == generateSeededBytes(NewRng(sv), sz, cs)[1]

\* the seed the call of p resolved: its first seed argument, or else the
\* timestamp it read
ResolvedSeed(p) == IF seed[p] /= <<>> THEN seed[p][1] ELSE stamp[p][1]

(***************************************************************************)
(* C15: cancellation is the only failure of the seeded path: with a        *)
(* context that is not done at entry, SeededBytesWithContext and           *)
(* SeededStringWithContext return a nil error for every size and every     *)
(* charset (size <= 0 and the empty charset included), and the data that   *)
(* SeededBytes / SeededString return for the same size, charset and seed.  *)
(***************************************************************************)
C15_SeededOnlyCancellationFails ==
    \A p \in procs :
        (/\ Done(p)
         /\ op[p] \in {"SeededBytesWithContext", "SeededStringWithContext"}
         /\ LiveAtCheck(p))
        => (/\ ~Panicked(ret[p])
            /\ ret[p].err = NoErr
            /\ Len(stamp[p]) = 1
            /\ ret[p].data =
                 IF op[p] = "SeededBytesWithContext"
                 THEN SeededAlone(size[p], charset[p], ResolvedSeed(p))
                 ELSE StringConv(
                          SeededAlone(size[p], charset[p], ResolvedSeed(p))))

\* SeededBytesWithContext has returned without error for size 0 and the
\* empty charset, its context having ended after the select
C15_Witness ==
    \E p \in procs :
        /\ Done(p)
        /\ op[p] = "SeededBytesWithContext"
        /\ LiveAtCheck(p)
        /\ CtxIsDone(ctx[p])
        /\ size[p] = 0
        /\ Len(charset[p]) = 0
        /\ ret[p] = Result(BytesOf(<<>>), NoErr)

(***************************************************************************)
(* C16: for every size <= 0, every charset (the empty one included) and    *)
(* every seed, SeededBytes returns an empty (length 0) result and          *)
(* SeededString returns the empty string, without error or panic.          *)
(***************************************************************************)
C16_SeededNonPositiveSize ==
    \A p \in procs :
        (/\ Done(p)
         /\ op[p] \in {"SeededBytes", "SeededString"}
         /\ size[p] <= 0)
        => (/\ ~Panicked(ret[p])
            /\ ret[p].err = NoErr
            /\ ret[p].data.typ = (IF op[p] = "SeededBytes" THEN "bytes"
                                  ELSE "string")
            /\ Len(ret[p].data.v) = 0)

\* SeededString(-1, "") has returned
C16_Witness ==
    \E p \in procs :
        /\ Done(p)
        /\ op[p] = "SeededString"
        /\ size[p] < 0
        /\ Len(charset[p]) = 0
        /\ ret[p].data = StringOf(<<>>)

(***************************************************************************)
(* C17: SeededBytes called with an empty charset and size > 0 fails        *)
(* safely: it never indexes the charset and never panics, and returns a    *)
(* buffer of exactly size zero-valued bytes.                               *)
(***************************************************************************)
C17_SeededEmptyCharset ==
    \A p \in procs :
        (/\ Done(p)
         /\ op[p] = "SeededBytes"
         /\ size[p] > 0
         /\ Len(charset[p]) = 0)
        => (/\ ~Panicked(ret[p])
            /\ ret[p].err = NoErr
            /\ ret[p].data = BytesOf([i \in 1..size[p] |-> 0]))

\* SeededBytes(MaxSize, "") has returned under the default seed
C17_Witness ==
    \E p \in procs :
        /\ Done(p)
        /\ op[p] = "SeededBytes"
        /\ seed[p] = <<>>
        /\ size[p] = MaxSize
        /\ Len(charset[p]) = 0
        /\ Len(ret[p].data.v) = MaxSize

(***************************************************************************)
(* C18: under every interleaving of several SeededBytes calls running at   *)
(* the same time, each call returns exactly what it returns when run       *)
(* alone with its size, charset and seed: each call draws from a generator *)
(* of its own, and the calls share no state.                               *)
(***************************************************************************)
C18_SeededIsolation ==
    \A p \in procs :
        Done(p) =>
            (/\ Len(stamp[p]) = 1
             /\ ret[p] = Result(SeededAlone(size[p], charset[p],
                                            ResolvedSeed(p)), NoErr))

\* two calls with different seeds were in flight together: the first has
\* returned, the second has generated, and their outputs differ
C18_Witness ==
    /\ pc[1] = "done"
    /\ pc[2] = "return"
    /\ size[1] = MaxSize /\ size[2] = MaxSize
    /\ charset[1] = charset[2]
    /\ seed[1] /= <<>> /\ seed[2] /= <<>> /\ seed[1] /= seed[2]
    /\ stamp[1] = stamp[2]
    /\ Len(ret[1].data.v) = MaxSize
    /\ ret[1].data.v /= nonce[2]

(***************************************************************************)
(* C19: called without a seed, SeededBytes uses the nanosecond clock read  *)
(* at call time as the seed: its output equals SeededBytes(size, charset,  *)
(* t) for the timestamp t it read.  Called with a seed, its output does    *)
(* not depend on the clock.                                                *)
(***************************************************************************)
C19_DefaultSeedIsClock ==
    \A p \in procs :
        (Done(p) /\ op[p] = "SeededBytes") =>
            /\ Len(stamp[p]) = 1
            /\ seed[p] = <<>> =>
                   ret[p].data = SeededAlone(size[p], charset[p], stamp[p][1])
            /\ seed[p] /= <<>> =>
                   ret[p].data = SeededAlone(size[p], charset[p], seed[p][1])

\* SeededBytes without a seed has returned a full-size result after the
\* clock had advanced past its start
C19_Witness ==
    \E p \in procs :
        /\ Done(p)
        /\ op[p] = "SeededBytes"
        /\ seed[p] = <<>>
        /\ stamp[p] = <<MaxTicks>>
        /\ size[p] = MaxSize
        /\ Len(charset[p]) = MaxShort
        /\ Len(ret[p].data.v) = MaxSize

\* []byte(s) for a string s: a fresh slice of the string's bytes, never nil
BytesConv(d) == BytesOf(d.v)

\* the entry points that return a string next to an error or alone
TextOps == {"String", "StringWithContext", "SeededString",
            "SeededStringWithContext"}

(***************************************************************************)
(* C20: each string variant is the text view of its bytes variant: for the *)
(* same inputs and the same randomness, String / StringWithContext return  *)
(* string(b) and the same error that Bytes / BytesWithContext return (and  *)
(* panic as they do), and SeededString / SeededStringWithContext return    *)
(* the string of what SeededBytes / SeededBytesWithContext return;         *)
(* converting the string back to bytes gives the bytes of the byte result, *)
(* and the byte result itself unless that was nil.                         *)
(***************************************************************************)
C20_StringIsTextView ==
    \A p \in procs :
        (Done(p) /\ op[p] \in TextOps) =>
            IF Panicked(inner[p]) THEN ret[p] = inner[p]
            ELSE /\ ~Panicked(ret[p])
                 /\ ret[p].err = inner[p].err
                 /\ ret[p].data.typ = "string"
                 /\ ret[p].data.v = inner[p].data.v
                 /\ BytesConv(ret[p].data).v = inner[p].data.v
                 /\ ~inner[p].data.isnil
                        => BytesConv(ret[p].data) = inner[p].data

\* String has returned a full-size string over a charset longer than 256
\* bytes
C20_Witness ==
    \E p \in procs :
        /\ Done(p)
        /\ op[p] = "String"
        /\ ReadSucceeded(p)
        /\ Len(charset[p]) > ByteMod
        /\ ret[p].err = NoErr
        /\ ret[p].data = StringOf(nonce[p])
        /\ Len(nonce[p]) = MaxSize

\* the secure entry points together
SecureCall(p) == op[p] \in SecureOps

(***************************************************************************)
(* C21: secure mapping rule: for every non-empty charset and every raw     *)
(* byte b delivered by the entropy source at position i, the output byte   *)
(* at position i is charset[b mod len(charset)].  The code reduces b       *)
(* modulo byte(len(charset)) instead, which differs for every charset of   *)
(* 256 bytes or more.                                                      *)
(***************************************************************************)
C21_SecureMappingRule ==
    \A p \in procs :
        (/\ Done(p)
         /\ op[p] \in FallibleSecureOps
         /\ Len(charset[p]) > 0
         /\ ReadSucceeded(p))
        => (/\ ~Panicked(ret[p])
            /\ Len(ret[p].data.v) = Len(reads[p][1].raw)
            /\ \A i \in 1..Len(reads[p][1].raw) :
                   ret[p].data.v[i] =
                       Index(charset[p], reads[p][1].raw[i] % Len(charset[p])))

\* the error or panic value a finished call ended in
Failure(r) == IF Panicked(r) THEN r.panic ELSE r.err

\* the failures that come before the read
EntryFailures == {Canceled, DeadlineExceeded, ErrInvalidSize, ErrEmptyCharset}

(***************************************************************************)
(* C22: the secure entropy source is read only after both the cancellation *)
(* check and the input validation have passed: whenever a read has         *)
(* happened, the context was live at the check, size > 0 and the charset   *)
(* is not empty; and a call that fails with a cancellation error,          *)
(* ErrInvalidSize or ErrEmptyCharset has performed no read.                *)
(***************************************************************************)
C22_ReadAfterChecks ==
    \A p \in procs :
        SecureCall(p) =>
            /\ reads[p] /= <<>> =>
                   (/\ LiveAtCheck(p)
                    /\ size[p] > 0
                    /\ Len(charset[p]) > 0)
            /\ (Done(p) /\ \E e \in EntryFailures : Is(Failure(ret[p]), e))
                   => reads[p] = <<>>

\* BytesWithContext has failed on a canceled context, with arguments that
\* would have led to a read
C22_Witness ==
    \E p \in procs :
        /\ Done(p)
        /\ reads[p] = <<>>
        /\ op[p] = "BytesWithContext"
        /\ ctxAtCall[p] = Canceled
        /\ size[p] = MaxSize
        /\ Len(charset[p]) = MaxShort
        /\ Is(ret[p].err, Canceled)

(***************************************************************************)
(* C23: the cancellation check happens exactly once, at entry: if the      *)
(* context becomes done after the entry check has passed, the call still   *)
(* runs to completion and returns the full result with a nil error         *)
(* (the secure functions for size > 0, a non-empty charset and a read that *)
(* succeeds, the seeded ones always), and no cancellation error is         *)
(* produced.  The secure functions panic instead when the charset's length *)
(* is a multiple of 256.                                                   *)
(***************************************************************************)
C23_CheckedOnceAtEntry ==
    \A p \in procs :
        (/\ Done(p)
         /\ op[p] \in ContextOps
         /\ LiveAtCheck(p)
         /\ ctx[p] \in {Canceled, DeadlineExceeded})
        => (/\ ~Is(Failure(ret[p]), Canceled)
            /\ ~Is(Failure(ret[p]), DeadlineExceeded)
            /\ op[p] \in SeededOps =>
                   (/\ ret[p].err = NoErr
                    /\ ret[p].data.v =
                         SeededAlone(size[p], charset[p], ResolvedSeed(p)).v)
            /\ (/\ op[p] \in SecureOps
                /\ size[p] > 0
                /\ Len(charset[p]) > 0
                /\ ReadSucceeded(p))
                   => (/\ ~Panicked(ret[p])
                       /\ ret[p].err = NoErr
                       /\ Len(ret[p].data.v) = size[p]))

(***************************************************************************)
(* C24: every secure call that passes the entry checks reads the entropy   *)
(* source exactly once, requesting exactly size bytes; a failed read is    *)
(* never retried and is surfaced to the caller as the failure of that      *)
(* call.                                                                   *)
(***************************************************************************)
C24_OneReadOfSizeBytes ==
    \A p \in procs :
        SecureCall(p) =>
            /\ Len(reads[p]) <= 1
            /\ (/\ Done(p)
                /\ LiveAtCheck(p)
                /\ size[p] > 0
                /\ Len(charset[p]) > 0)
                   => (/\ Len(reads[p]) = 1
                       /\ reads[p][1].n = size[p]
                       /\ Len(reads[p][1].raw) = size[p]
                       /\ reads[p][1].err /= NoErr =>
                              (/\ Is(Failure(ret[p]), ErrRandomFailure)
                               /\ Is(Failure(ret[p]), reads[p][1].err)))

\* MustBytes has panicked with the failure of its one read of MaxSize bytes
C24_Witness ==
    \E p \in procs :
        /\ Done(p)
        /\ op[p] = "MustBytes"
        /\ size[p] = MaxSize
        /\ Len(reads[p]) = 1
        /\ reads[p][1].n = MaxSize
        /\ reads[p][1].err \in ReadCauses
        /\ Panicked(ret[p])
        /\ Is(ret[p].panic, reads[p][1].err)

\* the raw byte values that select position j of charset cs
Selecting(cs, j) == {b \in 0..(ByteMod - 1) : Position(b, cs) = j}

\* how many raw byte values select each position of cs
SelectCounts(cs) == {Cardinality(Selecting(cs, j)) : j \in 0..(Len(cs) - 1)}

(***************************************************************************)
(* C25: bias of the secure mapping: when len(charset) evenly divides 256,  *)
(* every charset position is selected by the same number                   *)
(* (256 / len(charset)) of the 256 raw byte values; when it does not, the  *)
(* numbers of raw byte values selecting any two positions differ by at     *)
(* most one.  Stated of the charset of every call that is about to map its *)
(* raw bytes; the code divides by zero for a charset of 256 bytes and      *)
(* selects only the low positions of a longer one.                         *)
(***************************************************************************)
C25_MappingBias ==
    \A p \in procs :
        (SecureCall(p) /\ pc[p] = "map") =>
            /\ CharsetLen(charset[p]) /= 0
            /\ ByteMod % Len(charset[p]) = 0 =>
                   SelectCounts(charset[p]) = {ByteMod \div Len(charset[p])}
            /\ \A a, b \in SelectCounts(charset[p]) : a - b <= 1

(***************************************************************************)
(* C26: cancellation takes precedence over validation: when the context is *)
(* already done at entry and the input is also invalid (size <= 0 or empty *)
(* charset), BytesWithContext / StringWithContext return the cancellation  *)
(* error, and that error matches neither ErrInvalidSize nor                *)
(* ErrEmptyCharset.                                                        *)
(***************************************************************************)
C26_CancellationBeforeValidation ==
    \A p \in procs :
        (/\ Done(p)
         /\ op[p] \in {"BytesWithContext", "StringWithContext"}
         /\ ctxAtCall[p] \in {Canceled, DeadlineExceeded}
         /\ (size[p] <= 0 \/ Len(charset[p]) = 0))
        => (/\ ~Panicked(ret[p])
            /\ Is(ret[p].err, ctxAtCall[p])
            /\ ~Is(ret[p].err, ErrInvalidSize)
            /\ ~Is(ret[p].err, ErrEmptyCharset))

\* StringWithContext has returned for a canceled context, a negative size
\* and an empty charset
C26_Witness ==
    \E p \in procs :
        /\ Done(p)
        /\ op[p] = "StringWithContext"
        /\ ctxAtCall[p] = Canceled
        /\ size[p] < 0
        /\ Len(charset[p]) = 0
        /\ Is(ret[p].err, Canceled)

(***************************************************************************)
(* C27: validation order of the secure path: when size <= 0 and the        *)
(* charset is empty at the same time, Bytes / String fail with             *)
(* ErrInvalidSize (the size check runs first), and the error does not      *)
(* match ErrEmptyCharset.                                                  *)
(***************************************************************************)
C27_SizeCheckedFirst ==
    \A p \in procs :
        (/\ Done(p)
         /\ op[p] \in {"Bytes", "String"}
         /\ size[p] <= 0
         /\ Len(charset[p]) = 0)
        => (/\ ~Panicked(ret[p])
            /\ Is(ret[p].err, ErrInvalidSize)
            /\ ~Is(ret[p].err, ErrEmptyCharset))

\* String(0, "") has returned
C27_Witness ==
    \E p \in procs :
        /\ Done(p)
        /\ op[p] = "String"
        /\ size[p] = 0
        /\ Len(charset[p]) = 0
        /\ ret[p] = Result(StringOf(<<>>), ErrInvalidSize)

(***************************************************************************)
(* C28: the secure path reduces each raw byte modulo the charset length    *)
(* truncated to 8 bits, (len(charset) mod 256): for a charset longer than  *)
(* 256 bytes whose length is not a multiple of 256, the output byte is the *)
(* one at position b mod (len(charset) mod 256), so only positions below   *)
(* len(charset) mod 256 appear, and the position is within the charset.    *)
(***************************************************************************)
C28_TruncatedModulus ==
    \A p \in procs :
        (/\ Done(p)
         /\ op[p] \in FallibleSecureOps
         /\ Len(charset[p]) > ByteMod
         /\ Len(charset[p]) % ByteMod /= 0
         /\ ReadSucceeded(p))
        => (/\ ~Panicked(ret[p])
            /\ ret[p].err = NoErr
            /\ Len(ret[p].data.v) = size[p]
            /\ \A i \in 1..size[p] :
                  /\ reads[p][1].raw[i] % (Len(charset[p]) % ByteMod)
                         < Len(charset[p])
                  /\ ret[p].data.v[i] =
                         Index(charset[p],
                               reads[p][1].raw[i] % (Len(charset[p]) % ByteMod))
                  /\ ret[p].data.v[i] \in
                         {Index(charset[p], j) :
                              j \in 0..((Len(charset[p]) % ByteMod) - 1)})

\* Bytes over a charset of 257 bytes has mapped a raw byte that is itself a
\* position of the charset to position 0
C28_Witness ==
    \E p \in procs :
        /\ Done(p)
        /\ op[p] = "Bytes"
        /\ Len(charset[p]) = ByteMod + 1
        /\ ReadSucceeded(p)
        /\ size[p] = MaxSize
        /\ \E i \in 1..MaxSize : reads[p][1].raw[i] > 0
        /\ \A i \in 1..MaxSize : ret[p].data.v[i] = Index(charset[p], 0)

(***************************************************************************)
(* C29: only the first supplied seed is used: for every size, charset and  *)
(* seeds s1, s2, ..., SeededBytes(size, charset, s1, s2, ...) returns the  *)
(* same output as SeededBytes(size, charset, s1).                          *)
(***************************************************************************)
C29_FirstSeedOnly ==
    \A p \in procs :
        (/\ Done(p)
         /\ op[p] = "SeededBytes"
         /\ Len(seed[p]) >= 2)
        => ret[p] = Result(SeededAlone(size[p], charset[p], seed[p][1]), NoErr)

\* SeededBytes has returned for two different seeds, with an output that
\* the second seed alone does not give
C29_Witness ==
    \E p \in procs :
        /\ Done(p)
        /\ op[p] = "SeededBytes"
        /\ Len(seed[p]) = 2
        /\ seed[p][1] /= seed[p][2]
        /\ size[p] = MaxSize
        /\ Len(charset[p]) > 1
        /\ ret[p].data /= SeededAlone(size[p], charset[p], seed[p][2])

(***************************************************************************)
(* C30: seeded prefix law: for a fixed non-empty charset and seed and any  *)
(* sizes 0 < n <= m, SeededBytes(n, charset, seed) is exactly the first n  *)
(* bytes of SeededBytes(m, charset, seed).                                 *)
(***************************************************************************)
C30_SeededPrefix ==
    \A p \in procs :
        (/\ Done(p)
         /\ op[p] = "SeededBytes"
         /\ size[p] > 0
         /\ Len(charset[p]) > 0)
        => \A n \in 1..size[p] :
               SeededAlone(n, charset[p], ResolvedSeed(p)).v
                   = SubSeq(ret[p].data.v, 1, n)

\* SeededBytes has returned MaxSize bytes whose first and last differ
C30_Witness ==
    \E p \in procs :
        /\ Done(p)
        /\ op[p] = "SeededBytes"
        /\ seed[p] /= <<>>
        /\ size[p] = MaxSize
        /\ Len(charset[p]) = MaxShort
        /\ ret[p].data.v[1] /= ret[p].data.v[MaxSize]

====
